---- MODULE Spec2Model ----
\* A model of the Google Chat stand-up / pull-request reminder:
\*   src/github-prs.ts     fetchPRsWaitingForReview, generatePRReminderMessage
\*   src/unnamed/part_000  sendToWebhook, sendDailyStandup, sendPRReminder
EXTENDS Integers, Sequences, FiniteSets, TLC

VARIABLES
    \* module-level configuration (src/unnamed/part_000:2-6)
    WEBHOOK_URL, ENVIRONMENT, GITHUB_TOKEN, GITHUB_REPOS, MAX_PR_AGE_DAYS,
    \* the handler that runs and its position
    job, pc,
    \* fetchPRsWaitingForReview: loop position, accumulators, the reply in hand, log
    repoIdx, allPRs, draftCounts, response, logged,
    \* the repositories fetch() was called for, in order
    fetchCalls,
    \* sendPRReminder / sendDailyStandup: composed message and delivery
    message, sendCalls, webhookPosts, sendResult,
    \* the reply of the webhook to the one request, once it is there
    webhookReply,
    \* the review loop of one pull request, event by event
    rPr, rIdx, rStatuses

vars == <<WEBHOOK_URL, ENVIRONMENT, GITHUB_TOKEN, GITHUB_REPOS, MAX_PR_AGE_DAYS,
          job, pc, repoIdx, allPRs, draftCounts, response, logged, fetchCalls,
          message, sendCalls, webhookPosts, sendResult, webhookReply,
          rPr, rIdx, rStatuses>>

pipelineVars == <<WEBHOOK_URL, ENVIRONMENT, GITHUB_TOKEN, GITHUB_REPOS, MAX_PR_AGE_DAYS,
                  job, pc, repoIdx, allPRs, draftCounts, response, logged, fetchCalls,
                  message, sendCalls, webhookPosts, sendResult, webhookReply>>

reduceVars == <<rPr, rIdx, rStatuses>>

----------------------------------------------------------------------------
\* Bounds of the model

\* pull-request nodes in one repository's reply
MaxPRs == 2

\* review events of the pull request whose review loop is stepped through
MaxEvents == 3

\* pull requests handed to generatePRReminderMessage when it is checked on its own
MaxComposePRs == 2

----------------------------------------------------------------------------
\* Values

\* a login that is missing (undefined, null or ""): falsy in the source
NoLogin == ""

Author == "alice"

BotLogins == {"dependabot[bot]"}

ReviewStates == {"APPROVED", "CHANGES_REQUESTED", "COMMENTED", "DISMISSED"}

RECURSIVE SeqsUpTo(_, _)
SeqsUpTo(S, n) ==
    IF n = 0 THEN {<<>>}
    ELSE LET shorter == SeqsUpTo(S, n - 1)
         IN  shorter \cup {Append(s, x) : s \in {t \in shorter : Len(t) = n - 1}, x \in S}

\* reviewer.includes('[bot]')
HasBotMarker(login) == login \in BotLogins

----------------------------------------------------------------------------
\* reviewerStatuses: a Map<string, string>, iterated in insertion order; modelled
\* as a sequence of [login, status] with pairwise distinct logins.

MapIndex(statuses, login) ==
    IF \E k \in 1..Len(statuses) : statuses[k].login = login
    THEN CHOOSE k \in 1..Len(statuses) : statuses[k].login = login
    ELSE 0

MapHas(statuses, login) == MapIndex(statuses, login) # 0

MapGet(statuses, login) == statuses[MapIndex(statuses, login)].status

MapSet(statuses, login, status) ==
    IF MapHas(statuses, login)
    THEN [statuses EXCEPT ![MapIndex(statuses, login)].status = status]
    ELSE Append(statuses, [login |-> login, status |-> status])

MapKeys(statuses) == {statuses[k].login : k \in 1..Len(statuses)}

\* requestedReviewers: the logins of the review requests, the missing ones dropped
RECURSIVE RequestedReviewers(_)
RequestedReviewers(reviewRequests) ==
    IF reviewRequests = <<>> THEN <<>>
    ELSE LET login == Head(reviewRequests).login
             rest == RequestedReviewers(Tail(reviewRequests))
         IN  IF login # NoLogin THEN <<login>> \o rest ELSE rest

\* reading rr.requestedReviewer of a null review request raises a TypeError
RequestsThrow(reviewRequests) ==
    \E k \in 1..Len(reviewRequests) : reviewRequests[k].isNull

\* every requested reviewer starts as "pending"
RECURSIVE InitPending(_, _)
InitPending(statuses, requested) ==
    IF requested = <<>> THEN statuses
    ELSE InitPending(MapSet(statuses, Head(requested), "pending"), Tail(requested))

\* variant: the reviews of the PR author are not skipped
SkipReviewKeepsAuthor(authorLogin, reviewer) ==
    reviewer = NoLogin \/ HasBotMarker(reviewer)

\* a review is skipped when it has no author, or is by the PR author or a bot
SkipReview(authorLogin, reviewer) ==
    reviewer = NoLogin \/ reviewer = authorLogin \/ HasBotMarker(reviewer)

\* variant: a COMMENTED review overwrites any status
CommentedAlwaysApplies(statuses, reviewer) == TRUE

\* a COMMENTED review counts only over no status or "pending"
CommentedApplies(statuses, reviewer) ==
    ~MapHas(statuses, reviewer) \/ MapGet(statuses, reviewer) = "pending"

\* one iteration of the loop over the reviews of a pull request
ApplyReview(statuses, authorLogin, review) ==
    IF SkipReview(authorLogin, review.author) THEN statuses
    ELSE IF review.state = "APPROVED"
         THEN MapSet(statuses, review.author, "approved")
    ELSE IF review.state = "CHANGES_REQUESTED"
         THEN MapSet(statuses, review.author, "changes_requested")
    ELSE IF review.state = "COMMENTED" /\ CommentedApplies(statuses, review.author)
         THEN MapSet(statuses, review.author, "commented")
    ELSE statuses

RECURSIVE ApplyReviews(_, _, _)
ApplyReviews(statuses, authorLogin, reviews) ==
    IF reviews = <<>> THEN statuses
    ELSE ApplyReviews(ApplyReview(statuses, authorLogin, Head(reviews)),
                      authorLogin, Tail(reviews))

\* the reviewer statuses of one pull-request node
ReviewerStatuses(pr) ==
    ApplyReviews(InitPending(<<>>, RequestedReviewers(pr.reviewRequests)),
                 pr.author, pr.reviews)

----------------------------------------------------------------------------
\* fetchPRsWaitingForReview

\* GITHUB_REPOS is a sequence of comma-separated tokens.  A token is the sequence
\* of the segments that "/" separates (<<"acme", "api">> is "acme/api"), with a
\* flag for surrounding white space.  A repository is named by its trimmed token.
Trim(token) == token.segs

EmptyString == <<"">>

\* githubRepos.split(",").map(repo => repo.trim()).filter(repo => repo)
RECURSIVE ParseRepos(_)
ParseRepos(csv) ==
    IF csv = <<>> THEN <<>>
    ELSE LET repo == Trim(Head(csv))
         IN  IF repo # EmptyString THEN <<repo>> \o ParseRepos(Tail(csv))
             ELSE ParseRepos(Tail(csv))

\* const [owner, repoName] = repo.split("/"); !owner || !repoName
Owner(repo) == repo[1]

RepoName(repo) == IF Len(repo) >= 2 THEN repo[2] ELSE ""

\* variant: only the owner is looked at
InvalidFormatOwnerOnly(repo) == Owner(repo) = ""

InvalidFormat(repo) == Owner(repo) = "" \/ RepoName(repo) = ""

\* prs.filter(pr => pr.isDraft).length; reading isDraft of a null node raises
DraftFilterThrows(prs) == \E k \in 1..Len(prs) : prs[k].isNull

DraftCount(prs) == Cardinality({k \in 1..Len(prs) : prs[k].isDraft})

\* draftCounts[repo] = n
SetCount(counts, repo, n) ==
    [r \in DOMAIN counts \cup {repo} |-> IF r = repo THEN n ELSE counts[r]]

\* the object pushed to allPRs (title and url are copied as they are, and left out)
MakePR(pr, repo, reviewers) ==
    [number     |-> pr.number,
     author     |-> IF pr.author # NoLogin THEN pr.author ELSE "unknown",
     reviewers  |-> reviewers,
     createdAt  |-> pr.createdAt,
     repository |-> repo]

\* variant: a pull request is pushed whatever its reviewers
IncludeEveryPR(reviewers) == TRUE

\* if (reviewersWithStatus.length > 0) allPRs.push(...)
IncludePR(reviewers) == Len(reviewers) > 0

\* the loop over the nodes of one repository: the accumulated list, and whether
\* an exception left the loop
RECURSIVE ProcessNodes(_, _, _)
ProcessNodes(prs, repo, acc) ==
    IF prs = <<>> THEN [prs |-> acc, threw |-> FALSE]
    ELSE LET pr == Head(prs)
         IN  IF pr.isDraft THEN ProcessNodes(Tail(prs), repo, acc)
             ELSE IF RequestsThrow(pr.reviewRequests) THEN [prs |-> acc, threw |-> TRUE]
             ELSE LET reviewers == ReviewerStatuses(pr)
                  IN  IF IncludePR(reviewers)
                      THEN ProcessNodes(Tail(prs), repo, Append(acc, MakePR(pr, repo, reviewers)))
                      ELSE ProcessNodes(Tail(prs), repo, acc)

\* One iteration of the loop over the repositories, from the reply to the request:
\* the accumulators after it and what it logged ("" when nothing).
ProcessResponse(repo, resp, prsAcc, counts) ==
    IF resp.kind \in {"network_error", "invalid_json"}
    THEN [prs |-> prsAcc, counts |-> counts, log |-> "error"]
    ELSE IF resp.kind = "not_ok"
    THEN [prs |-> prsAcc, counts |-> counts, log |-> "failed_to_fetch"]
    ELSE IF resp.kind = "graphql_errors"
    THEN [prs |-> prsAcc, counts |-> counts, log |-> "graphql_errors"]
    ELSE IF DraftFilterThrows(resp.nodes)
    THEN [prs |-> prsAcc, counts |-> counts, log |-> "error"]
    ELSE LET done == ProcessNodes(resp.nodes, repo, prsAcc)
         IN  [prs    |-> done.prs,
              counts |-> SetCount(counts, repo, DraftCount(resp.nodes)),
              log    |-> IF done.threw THEN "error" ELSE ""]

----------------------------------------------------------------------------
\* generatePRReminderMessage

MsPerDay == 24 * 60 * 60 * 1000

MsPerHour == 1000 * 60 * 60

\* new Date(), taken as fixed during one run
Now == 10 * MsPerDay

\* now.getTime() - new Date(pr.createdAt).getTime()
PrAge(pr) == Now - pr.createdAt

\* variant: prAge < maxAgeMs
IsRecentStrict(pr, maxAgeDays) == PrAge(pr) < maxAgeDays * MsPerDay

\* prAge <= maxAgeMs
IsRecent(pr, maxAgeDays) == PrAge(pr) <= maxAgeDays * MsPerDay

\* prAge > maxAgeMs
IsOld(pr, maxAgeDays) == PrAge(pr) > maxAgeDays * MsPerDay

\* variant: a commenting reviewer does not count as pending
HasPendingReviewNoCommented(pr) ==
    \E k \in 1..Len(pr.reviewers) :
        pr.reviewers[k].status \in {"pending", "changes_requested"}

\* pr.reviewers.some(r => pending || commented || changes_requested)
HasPendingReview(pr) ==
    \E k \in 1..Len(pr.reviewers) :
        pr.reviewers[k].status \in {"pending", "commented", "changes_requested"}

\* variant: some() in the place of every()
IsFullyReviewedBySome(pr) ==
    Len(pr.reviewers) > 0 /\ \E k \in 1..Len(pr.reviewers) : pr.reviewers[k].status = "approved"

\* pr.reviewers.length > 0 && pr.reviewers.every(r => r.status === "approved")
IsFullyReviewed(pr) ==
    Len(pr.reviewers) > 0 /\ \A k \in 1..Len(pr.reviewers) : pr.reviewers[k].status = "approved"

\* the keys of prsByRepo, in the order of their first appearance in prs
RECURSIVE RepoOrder(_, _)
RepoOrder(prs, seen) ==
    IF prs = <<>> THEN seen
    ELSE IF \E k \in 1..Len(seen) : seen[k] = Head(prs).repository
         THEN RepoOrder(Tail(prs), seen)
         ELSE RepoOrder(Tail(prs), Append(seen, Head(prs).repository))

\* prsByRepo[repository]
RepoPRs(prs, repository) ==
    LET InRepo(pr) == pr.repository = repository
    IN  SelectSeq(prs, InRepo)

RecentPRs(prs, repository, maxAgeDays) ==
    LET Recent(pr) == IsRecent(pr, maxAgeDays)
    IN  SelectSeq(RepoPRs(prs, repository), Recent)

OldPRs(prs, repository, maxAgeDays) ==
    LET Old(pr) == IsOld(pr, maxAgeDays)
    IN  SelectSeq(RepoPRs(prs, repository), Old)

PrsWithPendingReview(prs, repository, maxAgeDays) ==
    SelectSeq(RecentPRs(prs, repository, maxAgeDays), HasPendingReview)

PrsFullyReviewed(prs, repository, maxAgeDays) ==
    SelectSeq(RecentPRs(prs, repository, maxAgeDays), IsFullyReviewed)

\* hiddenByRepo[repository] once the loop over prsByRepo has passed it
HiddenCounts(prs, repository, maxAgeDays, counts) ==
    [repository    |-> repository,
     fullyReviewed |-> Len(PrsFullyReviewed(prs, repository, maxAgeDays)),
     tooOld        |-> Len(OldPRs(prs, repository, maxAgeDays)),
     draft         |-> IF repository \in DOMAIN counts THEN counts[repository] ELSE 0]

\* Object.entries(hiddenByRepo): one entry per key of prsByRepo, in its order
HiddenByRepo(prs, maxAgeDays, counts) ==
    LET order == RepoOrder(prs, <<>>)
    IN  [k \in 1..Len(order) |-> HiddenCounts(prs, order[k], maxAgeDays, counts)]

HasHidden(entry) == entry.fullyReviewed > 0 \/ entry.tooOld > 0 \/ entry.draft > 0

\* the status emoji of a reviewer
Glyph(status) ==
    CASE status = "approved" -> "check"
      [] status = "changes_requested" -> "cycle"
      [] status = "commented" -> "speech"
      [] OTHER -> "hourglass"

\* "N day(s) ago", "N hour(s) ago" or "just now"
RelativeTime(pr) ==
    LET diffHours == PrAge(pr) \div MsPerHour
        diffDays == diffHours \div 24
    IN  IF diffDays > 0 THEN [n |-> diffDays, unit |-> "day"]
        ELSE IF diffHours > 0 THEN [n |-> diffHours, unit |-> "hour"]
        ELSE [n |-> 0, unit |-> "just now"]

\* the lines of one visible pull request
RenderPR(pr) ==
    [number    |-> pr.number,
     author    |-> pr.author,
     reviewers |-> [k \in 1..Len(pr.reviewers) |->
                       [login |-> pr.reviewers[k].login, glyph |-> Glyph(pr.reviewers[k].status)]],
     created   |-> RelativeTime(pr)]

\* the sections of the repositories, in order: one for each with a visible PR
RECURSIVE RepoSections(_, _, _)
RepoSections(order, prs, maxAgeDays) ==
    IF order = <<>> THEN <<>>
    ELSE LET visible == PrsWithPendingReview(prs, Head(order), maxAgeDays)
             rest == RepoSections(Tail(order), prs, maxAgeDays)
         IN  IF Len(visible) > 0
             THEN <<[kind |-> "repo", repository |-> Head(order),
                     prs |-> [k \in 1..Len(visible) |-> RenderPR(visible[k])]]>> \o rest
             ELSE rest

\* the "Hidden PRs" section: the entries with a count above zero, if there is one
HiddenSection(hidden) ==
    IF \E k \in 1..Len(hidden) : HasHidden(hidden[k])
    THEN <<[kind |-> "hidden", entries |-> SelectSeq(hidden, HasHidden)]>>
    ELSE <<>>

\* variant: no early return for an empty list
GenerateWithoutEmptyCheck(prs, maxAgeDays, counts) ==
    <<[kind |-> "preamble"]>>
    \o RepoSections(RepoOrder(prs, <<>>), prs, maxAgeDays)
    \o HiddenSection(HiddenByRepo(prs, maxAgeDays, counts))
    \o <<[kind |-> "closing"]>>

\* The message is text; it is modelled as the sequence of the blocks it is made of,
\* the empty string being the empty sequence.
GeneratePRReminderMessage(prs, maxAgeDays, counts) ==
    IF Len(prs) = 0 THEN <<>>
    ELSE <<[kind |-> "preamble"]>>
         \o RepoSections(RepoOrder(prs, <<>>), prs, maxAgeDays)
         \o HiddenSection(HiddenByRepo(prs, maxAgeDays, counts))
         \o <<[kind |-> "closing"]>>

----------------------------------------------------------------------------
\* generateStandupMessage, on the day of the week in Jakarta time (0 is Sunday)

NullMessage == [isNull |-> TRUE, text |-> <<>>]

Text(blocks) == [isNull |-> FALSE, text |-> blocks]

GenerateStandupMessage(dayOfWeek) ==
    IF dayOfWeek = 0 THEN NullMessage
    ELSE IF dayOfWeek = 6 THEN Text(<<[kind |-> "weekly_report"]>>)
    ELSE Text(<<[kind |-> "standup"]>>)

----------------------------------------------------------------------------
\* Inputs

ApiRepo == <<"acme", "api">>

WebRepo == <<"acme", "web">>

Token(segs) == [padded |-> FALSE, segs |-> segs]

Padded(segs) == [padded |-> TRUE, segs |-> segs]

\* GITHUB_REPOS: unset, white space only, one repository, a list with an empty
\* token and a token of the wrong shape between two repositories, and a list
\* with tokens without an owner and without a name before a repository
RepoInputs ==
    { <<>>,
      <<Padded(EmptyString)>>,
      <<Token(ApiRepo)>>,
      <<Padded(ApiRepo), Token(EmptyString), Token(<<"nodash">>), Padded(WebRepo)>>,
      <<Token(<<"", "api">>), Padded(<<"acme", "">>), Token(WebRepo)>> }

MaxAgeInputs == {1, 2}

\* In the run from the cron trigger every pull request was created one day and one
\* millisecond ago: too old when MAX_PR_AGE_DAYS is 1, recent when it is 2.
CreatedAtInput == Now - MsPerDay - 1

Request(login) == [isNull |-> FALSE, login |-> login]

NullRequest == [isNull |-> TRUE, login |-> NoLogin]

Review(login, state) == [author |-> login, state |-> state]

Node(number, isDraft, requests, reviews) ==
    [isNull |-> FALSE, isDraft |-> isDraft, number |-> number, author |-> Author,
     reviewRequests |-> requests, reviews |-> reviews, createdAt |-> CreatedAtInput]

NullNode == [Node(2, FALSE, <<>>, <<>>) EXCEPT !.isNull = TRUE]

\* The pull-request nodes a reply is made of: a draft, a null node, a node with a
\* null review request, two nodes nobody reviews (no review, and reviews of the
\* author and of a bot only), and two nodes with a reviewer (pending, approved).
NodeInputs ==
    { Node(1, TRUE, <<Request("carol")>>, <<>>),
      NullNode,
      Node(3, FALSE, <<NullRequest>>, <<>>),
      Node(4, FALSE, <<>>, <<>>),
      Node(5, FALSE, <<>>, <<Review(Author, "COMMENTED"), Review("dependabot[bot]", "APPROVED")>>),
      Node(6, FALSE, <<Request("carol")>>, <<>>),
      Node(7, FALSE, <<Request("carol")>>, <<Review("carol", "APPROVED")>>) }

ResponseInputs ==
    { [kind |-> kind, nodes |-> <<>>] :
        kind \in {"network_error", "not_ok", "invalid_json", "graphql_errors"} }
    \cup { [kind |-> "data", nodes |-> nodes] : nodes \in SeqsUpTo(NodeInputs, MaxPRs) }

\* no reply in hand
NoResponse == [kind |-> "none", nodes |-> <<>>]

OutcomeInputs == {"ok", "not_ok", "not_ok_no_text", "network_error"}

\* the pull request whose review loop is stepped through
ReduceRequestInputs ==
    { <<>>, <<Request("carol")>>, <<Request("dave"), Request("carol")>>,
      <<Request(Author)>>, <<Request("dependabot[bot]"), Request(NoLogin)>> }

ReduceReviewInputs ==
    { Review(login, state) : login \in {"carol", "dave", Author, "dependabot[bot]"},
                             state \in ReviewStates }

----------------------------------------------------------------------------
\* The handlers

Repos == ParseRepos(GITHUB_REPOS)

InitConfig ==
    /\ WEBHOOK_URL \in {"", "https://chat.example/webhook"}
    /\ ENVIRONMENT \in {"development", "production"}
    /\ GITHUB_TOKEN \in {"", "token"}
    /\ GITHUB_REPOS \in RepoInputs
    /\ MAX_PR_AGE_DAYS \in MaxAgeInputs

InitRun ==
    /\ job = "none"
    /\ pc = "idle"
    /\ repoIdx = 0
    /\ allPRs = <<>>
    /\ draftCounts = <<>>
    /\ response = NoResponse
    /\ logged = <<>>
    /\ fetchCalls = <<>>
    /\ message = NullMessage
    /\ sendCalls = 0
    /\ webhookPosts = 0
    /\ sendResult = "none"
    /\ webhookReply = "none"

InitNoReduce ==
    /\ rPr = Node(0, FALSE, <<>>, <<>>)
    /\ rIdx = 0
    /\ rStatuses = <<>>

Init == InitConfig /\ InitRun /\ InitNoReduce

\* variant: the run mode is not looked at
GateIgnoresMode(msg) == TRUE

\* if (ENVIRONMENT === "development") return, else go on to sendToWebhook
Gate(msg) == ENVIRONMENT # "development"

\* The handler's steps once the message is there: nothing to send, development
\* mode, or sendToWebhook up to its request to the webhook.
Deliver(msg, nothingToSend) ==
    /\ message' = msg
    /\ IF nothingToSend \/ ~Gate(msg)
       THEN /\ pc' = "done"
            /\ UNCHANGED <<sendCalls, webhookPosts, sendResult>>
       ELSE /\ sendCalls' = sendCalls + 1
            /\ IF WEBHOOK_URL = ""
               THEN /\ sendResult' = "false"
                    /\ pc' = "done"
                    /\ UNCHANGED webhookPosts
               ELSE /\ webhookPosts' = webhookPosts + 1
                    /\ pc' = "posting"
                    /\ UNCHANGED sendResult

\* sendDailyStandup
SendDailyStandup(dayOfWeek) ==
    /\ pc = "idle"
    /\ job' = "standup"
    /\ LET msg == GenerateStandupMessage(dayOfWeek)
       IN  Deliver(msg, msg.isNull)
    /\ UNCHANGED <<WEBHOOK_URL, ENVIRONMENT, GITHUB_TOKEN, GITHUB_REPOS, MAX_PR_AGE_DAYS,
                   repoIdx, allPRs, draftCounts, response, logged>>
    /\ UNCHANGED <<fetchCalls, webhookReply>>
    /\ UNCHANGED reduceVars

\* sendPRReminder, up to the first request of fetchPRsWaitingForReview
SendPRReminder ==
    /\ pc = "idle"
    /\ job' = "pr"
    /\ IF GITHUB_TOKEN = "" \/ GITHUB_REPOS = <<>>
       THEN /\ pc' = "fetched"
            /\ logged' = Append(logged, [kind |-> "not_configured", repo |-> <<>>])
            /\ UNCHANGED repoIdx
       ELSE /\ pc' = "loop"
            /\ repoIdx' = 1
            /\ UNCHANGED logged
    /\ UNCHANGED <<WEBHOOK_URL, ENVIRONMENT, GITHUB_TOKEN, GITHUB_REPOS, MAX_PR_AGE_DAYS,
                   allPRs, draftCounts, response, message, sendCalls, webhookPosts, sendResult>>
    /\ UNCHANGED <<fetchCalls, webhookReply>>
    /\ UNCHANGED reduceVars

\* a token that is not owner/repo: warn and continue
SkipInvalidRepo ==
    /\ pc = "loop"
    /\ repoIdx <= Len(Repos)
    /\ InvalidFormat(Repos[repoIdx])
    /\ logged' = Append(logged, [kind |-> "invalid_format", repo |-> Repos[repoIdx]])
    /\ response' = NoResponse
    /\ repoIdx' = repoIdx + 1
    /\ UNCHANGED <<WEBHOOK_URL, ENVIRONMENT, GITHUB_TOKEN, GITHUB_REPOS, MAX_PR_AGE_DAYS,
                   job, pc, allPRs, draftCounts, message, sendCalls, webhookPosts, sendResult>>
    /\ UNCHANGED <<fetchCalls, webhookReply>>
    /\ UNCHANGED reduceVars

\* the request for one repository and all that is done with its reply
FetchRepo(resp) ==
    /\ pc = "loop"
    /\ repoIdx <= Len(Repos)
    /\ ~InvalidFormat(Repos[repoIdx])
    /\ LET after == ProcessResponse(Repos[repoIdx], resp, allPRs, draftCounts)
       IN  /\ allPRs' = after.prs
           /\ draftCounts' = after.counts
           /\ logged' = IF after.log = "" THEN logged
                        ELSE Append(logged, [kind |-> after.log, repo |-> Repos[repoIdx]])
    /\ response' = resp
    /\ repoIdx' = repoIdx + 1
    /\ UNCHANGED <<WEBHOOK_URL, ENVIRONMENT, GITHUB_TOKEN, GITHUB_REPOS, MAX_PR_AGE_DAYS,
                   job, pc, message, sendCalls, webhookPosts, sendResult>>
    /\ fetchCalls' = Append(fetchCalls, Repos[repoIdx])
    /\ UNCHANGED webhookReply
    /\ UNCHANGED reduceVars

\* return { prs: allPRs, draftCounts }
FetchReturn ==
    /\ pc = "loop"
    /\ repoIdx > Len(Repos)
    /\ pc' = "fetched"
    /\ response' = NoResponse
    /\ UNCHANGED <<WEBHOOK_URL, ENVIRONMENT, GITHUB_TOKEN, GITHUB_REPOS, MAX_PR_AGE_DAYS,
                   job, repoIdx, allPRs, draftCounts, logged,
                   message, sendCalls, webhookPosts, sendResult>>
    /\ UNCHANGED <<fetchCalls, webhookReply>>
    /\ UNCHANGED reduceVars

\* sendPRReminder, from the fetched pull requests on
ComposeAndSend ==
    /\ pc = "fetched"
    /\ LET msg == Text(GeneratePRReminderMessage(allPRs, MAX_PR_AGE_DAYS, draftCounts))
       IN  Deliver(msg, Len(msg.text) = 0)
    /\ UNCHANGED <<WEBHOOK_URL, ENVIRONMENT, GITHUB_TOKEN, GITHUB_REPOS, MAX_PR_AGE_DAYS,
                   job, repoIdx, allPRs, draftCounts, response, logged>>
    /\ UNCHANGED <<fetchCalls, webhookReply>>
    /\ UNCHANGED reduceVars

\* variant: the reply is not looked at
SendResultAlwaysTrue(outcome) == "true"

\* what sendToWebhook returns on the outcome of its request: true past the
\* response.ok check, false from the catch (a rejected fetch, or the error
\* thrown for a response that is not ok, its text readable or not)
SendResult(outcome) == IF outcome = "ok" THEN "true" ELSE "false"

\* sendToWebhook, from the reply of the webhook on
WebhookReply(outcome) ==
    /\ pc = "posting"
    /\ sendResult' = SendResult(outcome)
    /\ pc' = "done"
    /\ UNCHANGED <<WEBHOOK_URL, ENVIRONMENT, GITHUB_TOKEN, GITHUB_REPOS, MAX_PR_AGE_DAYS,
                   job, repoIdx, allPRs, draftCounts, response, logged,
                   message, sendCalls, webhookPosts>>
    /\ webhookReply' = outcome
    /\ UNCHANGED fetchCalls
    /\ UNCHANGED reduceVars

Next ==
    \/ \E dayOfWeek \in 0..6 : SendDailyStandup(dayOfWeek)
    \/ SendPRReminder
    \/ SkipInvalidRepo
    \/ \E resp \in ResponseInputs : FetchRepo(resp)
    \/ FetchReturn
    \/ ComposeAndSend
    \/ \E outcome \in OutcomeInputs : WebhookReply(outcome)

Spec == Init /\ [][Next]_vars

----------------------------------------------------------------------------
\* The review loop of one pull request, one review at a time

InitReduce ==
    /\ WEBHOOK_URL = ""
    /\ ENVIRONMENT = "development"
    /\ GITHUB_TOKEN = ""
    /\ GITHUB_REPOS = <<>>
    /\ MAX_PR_AGE_DAYS = 1
    /\ InitRun
    /\ \E requests \in ReduceRequestInputs, reviews \in SeqsUpTo(ReduceReviewInputs, MaxEvents) :
          rPr = Node(0, FALSE, requests, reviews)
    /\ rIdx = 0
    /\ rStatuses = InitPending(<<>>, RequestedReviewers(rPr.reviewRequests))

ReduceStep ==
    /\ rIdx < Len(rPr.reviews)
    /\ rStatuses' = ApplyReview(rStatuses, rPr.author, rPr.reviews[rIdx + 1])
    /\ rIdx' = rIdx + 1
    /\ UNCHANGED rPr
    /\ UNCHANGED pipelineVars

NextReduce == ReduceStep

SpecReduce == InitReduce /\ [][NextReduce]_vars

----------------------------------------------------------------------------
\* sendPRReminder from the result of the fetch on, for any result the fetch can
\* give: pull requests with one or two reviewers, of two repositories, created
\* around the age limit, and a draft count for each repository.

Reviewer(login, status) == [login |-> login, status |-> status]

ComposeReviewerInputs ==
    { <<Reviewer("carol", "pending")>>,
      <<Reviewer("carol", "approved")>>,
      <<Reviewer("carol", "approved"), Reviewer("dave", "commented")>>,
      <<Reviewer("carol", "changes_requested"), Reviewer("dave", "approved")>> }

\* created one and two days ago to the millisecond, and one millisecond earlier
ComposeCreatedAtInputs ==
    {Now - MsPerDay, Now - MsPerDay - 1, Now - 2 * MsPerDay, Now - 2 * MsPerDay - 1}

ComposePRInputs ==
    { [number |-> 0, author |-> Author, reviewers |-> reviewers,
       createdAt |-> createdAt, repository |-> repository] :
         reviewers \in ComposeReviewerInputs,
         createdAt \in ComposeCreatedAtInputs,
         repository \in {ApiRepo, WebRepo} }

ComposeCountInputs ==
    { [r \in {ApiRepo, WebRepo} |-> 0],
      [r \in {ApiRepo, WebRepo} |-> IF r = ApiRepo THEN 2 ELSE 0] }

\* pr.number is the place of the pull request in the list
Numbered(prs) == [k \in 1..Len(prs) |-> [prs[k] EXCEPT !.number = k]]

InitCompose ==
    /\ WEBHOOK_URL = "https://chat.example/webhook"
    /\ ENVIRONMENT = "production"
    /\ GITHUB_TOKEN = "token"
    /\ GITHUB_REPOS = <<Token(ApiRepo), Token(WebRepo)>>
    /\ MAX_PR_AGE_DAYS \in MaxAgeInputs
    /\ job = "pr"
    /\ pc = "fetched"
    /\ repoIdx = Len(Repos) + 1
    /\ \E prs \in SeqsUpTo(ComposePRInputs, MaxComposePRs) : allPRs = Numbered(prs)
    /\ draftCounts \in ComposeCountInputs
    /\ response = NoResponse
    /\ logged = <<>>
    /\ fetchCalls = Repos
    /\ message = NullMessage
    /\ sendCalls = 0
    /\ webhookPosts = 0
    /\ sendResult = "none"
    /\ webhookReply = "none"
    /\ InitNoReduce

NextCompose ==
    \/ ComposeAndSend
    \/ \E outcome \in OutcomeInputs : WebhookReply(outcome)

SpecCompose == InitCompose /\ [][NextCompose]_vars

----------------------------------------------------------------------------
\* Properties of the review loop (SpecReduce)

ReduceLogins == {"carol", "dave", Author, "dependabot[bot]"}

ReduceRequested == RequestedReviewers(rPr.reviewRequests)

IsRequested(login) == \E k \in 1..Len(ReduceRequested) : ReduceRequested[k] = login

\* the status the map holds for a login, "absent" when it holds none
StatusOf(statuses, login) ==
    IF MapHas(statuses, login) THEN MapGet(statuses, login) ELSE "absent"

\* the places of the reviews of a login among the first n reviews
ReviewsBy(login, n) == {k \in 1..n : rPr.reviews[k].author = login}

Decisive(login, n) ==
    {k \in ReviewsBy(login, n) : rPr.reviews[k].state \in {"APPROVED", "CHANGES_REQUESTED"}}

Max(S) == CHOOSE x \in S : \A y \in S : y <= x

ExpectedStatus(login, n) ==
    IF Decisive(login, n) # {}
    THEN IF rPr.reviews[Max(Decisive(login, n))].state = "APPROVED"
         THEN "approved" ELSE "changes_requested"
    ELSE IF \E k \in ReviewsBy(login, n) : rPr.reviews[k].state = "COMMENTED"
    THEN "commented"
    ELSE IF IsRequested(login) THEN "pending"
    ELSE "absent"

\* C1: after any number of reviews, in order, a reviewer who is neither the PR
\* author nor a bot has the state of their last approved or changes_requested
\* review if they have one, else "commented" if they have a commented review,
\* else "pending" if they are a requested reviewer, else no status; a commented
\* review never changes "approved" or "changes_requested".
C1_ReviewStateReduction ==
    \A login \in ReduceLogins \ ({rPr.author} \cup BotLogins) :
        StatusOf(rStatuses, login) = ExpectedStatus(login, rIdx)

\* carol approves, then comments twice: she stays "approved"
C1_Witness ==
    /\ rIdx = 3
    /\ rPr.reviews = <<Review("carol", "APPROVED"), Review("carol", "COMMENTED"),
                       Review("dave", "COMMENTED")>>
    /\ StatusOf(rStatuses, "carol") = "approved"
    /\ StatusOf(rStatuses, "dave") = "commented"

\* the reviews that are neither by the PR author nor by a bot
RECURSIVE WithoutAuthorAndBots(_)
WithoutAuthorAndBots(reviews) ==
    IF reviews = <<>> THEN <<>>
    ELSE IF Head(reviews).author = rPr.author \/ Head(reviews).author \in BotLogins
         THEN WithoutAuthorAndBots(Tail(reviews))
         ELSE <<Head(reviews)>> \o WithoutAuthorAndBots(Tail(reviews))

SameAsWithoutAuthorAndBots ==
    rStatuses = ApplyReviews(InitPending(<<>>, ReduceRequested), rPr.author,
                             WithoutAuthorAndBots(SubSeq(rPr.reviews, 1, rIdx)))

\* C2 as claimed: the reviews of the PR author and of bots do not alter the
\* reviewer map, and neither the author nor a bot is a key of it.
C2_Original ==
    (/\ rIdx = Len(rPr.reviews)
     /\ \E k \in 1..rIdx : rPr.reviews[k].author \in {rPr.author} \cup BotLogins)
    => /\ SameAsWithoutAuthorAndBots
       /\ MapKeys(rStatuses) \cap ({rPr.author} \cup BotLogins) = {}

\* C2, amended: the reviews of the PR author and of bots do not alter the reviewer
\* map, and the author or a bot is a key of it only as a requested reviewer, and
\* then with the status "pending".
C2_BotAuthorExclusion ==
    /\ SameAsWithoutAuthorAndBots
    /\ \A login \in MapKeys(rStatuses) \cap ({rPr.author} \cup BotLogins) :
          IsRequested(login) /\ MapGet(rStatuses, login) = "pending"

\* the author, a requested reviewer, approves and a bot asks for changes, after
\* carol commented: the author stays "pending" and the bot has no status
C2_Witness ==
    /\ rIdx = 3
    /\ rPr.reviews = <<Review("carol", "COMMENTED"), Review(Author, "APPROVED"),
                       Review("dependabot[bot]", "CHANGES_REQUESTED")>>
    /\ rPr.reviewRequests = <<Request(Author)>>
    /\ rStatuses = <<Reviewer(Author, "pending"), Reviewer("carol", "commented")>>

----------------------------------------------------------------------------
\* Properties of the run from the cron trigger (Spec)

FailureKinds == {"error", "failed_to_fetch", "graphql_errors"}

Repositories == {ApiRepo, WebRepo}

PRsOf(repo) == {k \in 1..Len(allPRs) : allPRs[k].repository = repo}

\* a node that is no draft and ends with no reviewer: nobody requested, and no
\* review that counts
EndsWithoutReviewer(node) ==
    /\ ~node.isNull /\ ~node.isDraft
    /\ \A k \in 1..Len(node.reviewRequests) :
          ~node.reviewRequests[k].isNull /\ node.reviewRequests[k].login = NoLogin
    /\ \A k \in 1..Len(node.reviews) :
          \/ node.reviews[k].author \in {NoLogin, node.author} \cup BotLogins
          \/ node.reviews[k].state \notin {"APPROVED", "CHANGES_REQUESTED", "COMMENTED"}

\* C3: every pull request of the accumulated list has at least one reviewer, and
\* a node that ends with no reviewer is never in the list.
C3_ZeroReviewerExclusion ==
    /\ \A k \in 1..Len(allPRs) : Len(allPRs[k].reviewers) > 0
    /\ \A node \in NodeInputs :
          EndsWithoutReviewer(node) => \A k \in 1..Len(allPRs) : allPRs[k].number # node.number

\* a reply of a node nobody reviews (but its author and a bot) and a node with a
\* pending reviewer has been processed: only the second is in the list
C3_Witness ==
    /\ pc = "loop"
    /\ response.kind = "data"
    /\ Len(response.nodes) = 2
    /\ EndsWithoutReviewer(response.nodes[1])
    /\ Len(response.nodes[1].reviews) = 2
    /\ Len(allPRs) = 1
    /\ allPRs[1].number = response.nodes[2].number
    /\ logged = <<>>

OccursOnce(repo) == Cardinality({k \in 1..Len(Repos) : Repos[k] = repo}) = 1

\* C4 as claimed: a repository whose processing failed has no pull request in
\* the result and no entry in draftCounts, and the loop goes on to the end of the
\* list of repositories.
C4_Original ==
    /\ \A k \in 1..Len(logged) :
          (logged[k].kind \in FailureKinds /\ OccursOnce(logged[k].repo))
          => /\ PRsOf(logged[k].repo) = {}
             /\ logged[k].repo \notin DOMAIN draftCounts
    /\ (job = "pr" /\ pc \in {"fetched", "posting", "done"} /\ GITHUB_TOKEN # "" /\ GITHUB_REPOS # <<>>)
       => repoIdx = Len(Repos) + 1

\* the pull requests a reply gives when all of it is processed: its nodes that
\* are no drafts and have a reviewer, in the order of the reply
RECURSIVE IncludedPRs(_, _)
IncludedPRs(nodes, repo) ==
    IF nodes = <<>> THEN <<>>
    ELSE LET node == Head(nodes)
             rest == IncludedPRs(Tail(nodes), repo)
         IN  IF node.isDraft \/ EndsWithoutReviewer(node) THEN rest
             ELSE <<MakePR(node, repo, ReviewerStatuses(node))>> \o rest

\* a reply whose processing fails at some point
FailedReply(resp) ==
    \/ resp.kind # "data"
    \/ \E k \in 1..Len(resp.nodes) :
          \/ resp.nodes[k].isNull
          \/ ~resp.nodes[k].isDraft /\ RequestsThrow(resp.nodes[k].reviewRequests)

IsPrefix(s, t) == Len(s) <= Len(t) /\ SubSeq(t, 1, Len(s)) = s

\* C10 as claimed: the accumulated list only grows at its end, and each
\* repository, in the order of the list of repositories, adds to it the pull
\* requests of its reply, in the order of the reply, if its processing succeeds
\* and nothing if it fails.
C10_Original ==
    [][ /\ IsPrefix(allPRs, allPRs')
        /\ (pc = "loop" /\ repoIdx' = repoIdx + 1 /\ response'.kind # "none")
           => allPRs' = allPRs \o (IF FailedReply(response') THEN <<>>
                                   ELSE IncludedPRs(response'.nodes, Repos[repoIdx])) ]_vars

\* what the composed message shows
Composed == job = "pr" /\ pc \in {"posting", "done"}

BlockPlaces(kind) == {i \in 1..Len(message.text) : message.text[i].kind = kind}

\* the numbers of the pull requests in the section of a repository
VisibleNumbers(repo) ==
    UNION { {message.text[i].prs[k].number : k \in 1..Len(message.text[i].prs)} :
              i \in {j \in BlockPlaces("repo") : message.text[j].repository = repo} }

\* the entries of the "Hidden PRs" section
HiddenEntries ==
    UNION { {message.text[i].entries[k] : k \in 1..Len(message.text[i].entries)} :
              i \in BlockPlaces("hidden") }

\* those of them for a repository
ShownEntries(repo) == {e \in HiddenEntries : e.repository = repo}

AgeOf(k) == Now - allPRs[k].createdAt

MaxAgeMs == MAX_PR_AGE_DAYS * MsPerDay

AllApproved(k) == \A r \in 1..Len(allPRs[k].reviewers) : allPRs[k].reviewers[r].status = "approved"

FullyReviewedOf(repo) == {k \in PRsOf(repo) : AgeOf(k) <= MaxAgeMs /\ AllApproved(k)}

TooOldOf(repo) == {k \in PRsOf(repo) : AgeOf(k) > MaxAgeMs}

DraftsOf(repo) == IF repo \in DOMAIN draftCounts THEN draftCounts[repo] ELSE 0

HasNonZeroBucket(repo) ==
    FullyReviewedOf(repo) # {} \/ TooOldOf(repo) # {} \/ DraftsOf(repo) > 0

\* C7 as claimed: for a list with a pull request, the message has a "Hidden PRs"
\* section exactly when some repository has a fully reviewed or too old pull
\* request or a draft count above zero, and the section lists every such
\* repository, with or without a pull request in the list.
C7_Original ==
    (Composed /\ Len(allPRs) > 0)
    => /\ (BlockPlaces("hidden") # {}) <=> (\E repo \in Repositories : HasNonZeroBucket(repo))
       /\ \A repo \in Repositories : HasNonZeroBucket(repo) => ShownEntries(repo) # {}

NoVisiblePR == \A k \in 1..Len(allPRs) : AgeOf(k) > MaxAgeMs \/ AllApproved(k)

\* C8 as claimed: when the list has a pull request but none to show, the
\* composed message is the empty string and nothing is sent.
C8_Original ==
    (Composed /\ Len(allPRs) > 0 /\ NoVisiblePR)
    => /\ Len(message.text) = 0
       /\ sendCalls = 0

\* C9: in a run of either handler the webhook is called at most once, and never
\* for a null or empty message or in development mode.
C9_DeliveryGating ==
    /\ sendCalls <= 1
    /\ webhookPosts <= sendCalls
    /\ sendCalls > 0 => /\ ENVIRONMENT # "development"
                        /\ ~message.isNull
                        /\ Len(message.text) > 0
    /\ (pc = "done" /\ sendResult = "false") => sendCalls = 1

\* the one request to the webhook failed and the run is over
C9_Witness ==
    /\ pc = "done"
    /\ job = "pr"
    /\ webhookPosts = 1
    /\ sendResult = "false"

----------------------------------------------------------------------------
\* Properties of generatePRReminderMessage (SpecCompose); there a pull request
\* is named by its number, its place in the list.

FullyReviewedShown(repo) ==
    IF ShownEntries(repo) = {} THEN 0
    ELSE (CHOOSE e \in ShownEntries(repo) : TRUE).fullyReviewed

TooOldShown(repo) ==
    IF ShownEntries(repo) = {} THEN 0
    ELSE (CHOOSE e \in ShownEntries(repo) : TRUE).tooOld

\* C5: a pull request that passes the age filter and whose reviewers have all
\* approved is not shown, and the count of fully reviewed pull requests of each
\* repository is the number of such pull requests of that repository; so one with
\* a pending, commented or changes_requested reviewer is never counted.
C5_FullyReviewedSuppression ==
    Composed =>
        \A repo \in Repositories :
            /\ FullyReviewedOf(repo) \cap VisibleNumbers(repo) = {}
            /\ FullyReviewedShown(repo) = Cardinality(FullyReviewedOf(repo))
            /\ Cardinality(ShownEntries(repo)) <= 1

\* two pull requests of one repository, both recent: the approved one is counted
\* and hidden, the one with a commenting reviewer is shown
C5_Witness ==
    /\ Composed
    /\ Len(allPRs) = 2
    /\ PRsOf(ApiRepo) = {1, 2}
    /\ FullyReviewedOf(ApiRepo) = {1}
    /\ allPRs[2].reviewers = <<Reviewer("carol", "approved"), Reviewer("dave", "commented")>>
    /\ AgeOf(2) <= MaxAgeMs
    /\ VisibleNumbers(ApiRepo) = {2}
    /\ FullyReviewedShown(ApiRepo) = 1
    /\ FullyReviewedShown(WebRepo) = 0

\* C6: a pull request created exactly maxAgeDays days ago passes the age filter,
\* and is shown when a reviewer has not approved; one created earlier is not
\* shown, whatever its reviewers, and counts once as too old in its repository.
C6_AgeFilterBoundary ==
    Composed =>
        \A repo \in Repositories :
            /\ \A k \in PRsOf(repo) :
                  /\ (AgeOf(k) = MaxAgeMs /\ ~AllApproved(k)) => k \in VisibleNumbers(repo)
                  /\ (AgeOf(k) = MaxAgeMs /\ AllApproved(k)) => k \in FullyReviewedOf(repo)
                  /\ AgeOf(k) > MaxAgeMs => k \notin VisibleNumbers(repo)
            /\ TooOldShown(repo) = Cardinality(TooOldOf(repo))

\* two pending pull requests of one repository: the one created two days ago to
\* the millisecond is shown, the one created a millisecond earlier is too old
C6_Witness ==
    /\ Composed
    /\ MAX_PR_AGE_DAYS = 2
    /\ Len(allPRs) = 2
    /\ PRsOf(WebRepo) = {1, 2}
    /\ AgeOf(1) = MaxAgeMs
    /\ AgeOf(2) = MaxAgeMs + 1
    /\ allPRs[1].reviewers = <<Reviewer("carol", "pending")>>
    /\ allPRs[2].reviewers = <<Reviewer("carol", "pending")>>
    /\ VisibleNumbers(WebRepo) = {1}
    /\ TooOldShown(WebRepo) = 1

----------------------------------------------------------------------------
\* Requests of fetchPRsWaitingForReview (Spec)

NotConfigured == GITHUB_TOKEN = "" \/ GITHUB_REPOS = <<>>

\* a token that has no owner or no name
Malformed(repo) == Len(repo) < 2 \/ repo[1] = "" \/ repo[2] = ""

WellFormedRepos ==
    LET WellFormed(repo) == ~Malformed(repo)
    IN  SelectSeq(Repos, WellFormed)

FetchReturned == job = "pr" /\ pc \in {"fetched", "posting", "done"}

\* C11: without a token or without a repository list the fetch returns at once,
\* with no pull request, no draft count and no request made; a token without an
\* owner or a name is never requested, and the tokens that have both are all
\* requested, in order, whatever malformed tokens stand between them.
C11_ConfigurationAbsent ==
    /\ (NotConfigured \/ Repos = <<>>)
          => /\ fetchCalls = <<>>
             /\ allPRs = <<>>
             /\ draftCounts = <<>>
    /\ (NotConfigured /\ job = "pr") => FetchReturned
    /\ \A k \in 1..Len(fetchCalls) : ~Malformed(fetchCalls[k])
    /\ FetchReturned => fetchCalls = (IF NotConfigured THEN <<>> ELSE WellFormedRepos)

\* the fetch is over for a list of a token without an owner, a token without a
\* name and a repository: one request was made, for the repository
C11_Witness ==
    /\ FetchReturned
    /\ GITHUB_TOKEN # ""
    /\ Len(Repos) = 3
    /\ Malformed(Repos[1])
    /\ Malformed(Repos[2])
    /\ fetchCalls = <<WebRepo>>
    /\ Len(logged) >= 2

----------------------------------------------------------------------------
\* sendToWebhook (Spec)

SendReturned == sendCalls = 1 /\ pc = "done"

\* C12: a call of sendToWebhook always returns, true or false; without a webhook
\* URL it returns false and makes no request; with one it makes one request and
\* returns true when the response is a success, false when the request raised a
\* network error or the response is not a success.
C12_DeliveryFailureHandling ==
    /\ sendCalls = 0 => sendResult = "none"
    /\ (sendCalls = 1 /\ pc = "posting") => (sendResult = "none" /\ WEBHOOK_URL # "")
    /\ SendReturned =>
          /\ sendResult \in {"true", "false"}
          /\ WEBHOOK_URL = "" => (sendResult = "false" /\ webhookPosts = 0 /\ webhookReply = "none")
          /\ WEBHOOK_URL # "" => (webhookPosts = 1 /\ webhookReply # "none")
          /\ sendResult = "true" <=> webhookReply = "ok"
          /\ webhookReply \in {"not_ok", "not_ok_no_text", "network_error"} => sendResult = "false"

\* the stand-up message was posted and the request raised a network error
C12_Witness ==
    /\ SendReturned
    /\ job = "standup"
    /\ webhookPosts = 1
    /\ webhookReply = "network_error"
    /\ sendResult = "false"

----------------------------------------------------------------------------
\* generatePRReminderMessage on an empty list (Spec)

SomeDraftCounted == \E repo \in DOMAIN draftCounts : draftCounts[repo] > 0

\* C13: for an empty list of pull requests the composed message is the empty
\* string, whatever the age limit and the draft counts, counts above zero
\* included; the handler then sends nothing.
C13_EmptyInputResult ==
    /\ (Composed /\ Len(allPRs) = 0)
          => /\ message = Text(<<>>)
             /\ sendCalls = 0
             /\ pc = "done"
    /\ (job = "pr" /\ pc = "fetched")
          => GeneratePRReminderMessage(<<>>, MAX_PR_AGE_DAYS, draftCounts) = <<>>

\* the fetch found a draft and no pull request that waits for a review: the
\* list is empty, a draft count is above zero, and the message is empty
C13_Witness ==
    /\ Composed
    /\ Len(allPRs) = 0
    /\ SomeDraftCounted
    /\ message = Text(<<>>)
    /\ sendCalls = 0

----------------------------------------------------------------------------
\* Accounting of generatePRReminderMessage (SpecCompose)

RepoBlocks(repo) == {j \in BlockPlaces("repo") : message.text[j].repository = repo}

\* the number of pull requests rendered in the section of a repository
VisibleShown(repo) ==
    IF RepoBlocks(repo) = {} THEN 0
    ELSE Len(message.text[CHOOSE j \in RepoBlocks(repo) : TRUE].prs)

\* in how many of the three places the pull request at place k is
PlacesOf(repo, k) ==
    (IF k \in VisibleNumbers(repo) THEN 1 ELSE 0)
    + (IF k \in TooOldOf(repo) THEN 1 ELSE 0)
    + (IF k \in FullyReviewedOf(repo) THEN 1 ELSE 0)

\* C14: for a list the fetch can give, every pull request is in exactly one of
\* the visible section, the too-old count and the fully-reviewed count of its
\* repository: the three add up to the number of pull requests of the
\* repository, none is left out and none is there twice.
C14_CompleteAccounting ==
    Composed =>
        \A repo \in Repositories :
            /\ Cardinality(RepoBlocks(repo)) <= 1
            /\ VisibleNumbers(repo) \subseteq PRsOf(repo)
            /\ VisibleShown(repo) = Cardinality(VisibleNumbers(repo))
            /\ \A k \in PRsOf(repo) : PlacesOf(repo, k) = 1
            /\ VisibleShown(repo) + TooOldShown(repo) + FullyReviewedShown(repo)
                  = Cardinality(PRsOf(repo))

\* two pull requests of one repository: one too old whose reviewer approved,
\* counted as too old and not as fully reviewed, and a recent one on which a
\* reviewer commented, shown
C14_Witness ==
    /\ Composed
    /\ MAX_PR_AGE_DAYS = 1
    /\ Len(allPRs) = 2
    /\ PRsOf(ApiRepo) = {1, 2}
    /\ AllApproved(1)
    /\ TooOldOf(ApiRepo) = {1}
    /\ FullyReviewedOf(ApiRepo) = {}
    /\ allPRs[2].reviewers = <<Reviewer("carol", "approved"), Reviewer("dave", "commented")>>
    /\ VisibleNumbers(ApiRepo) = {2}
    /\ VisibleShown(ApiRepo) = 1
    /\ TooOldShown(ApiRepo) = 1
    /\ FullyReviewedShown(ApiRepo) = 0

====
